---- MODULE Spec2Model ----
(***************************************************************************)
(* Kairos audio auditor (src/kairos_auditor.py): the KairosReader          *)
(* application as a state machine.  The foreground (Tk main loop) handles  *)
(* operator events one at a time; every accepted run_audio spawns one      *)
(* daemon thread running speak_task, whose statements are separate steps.  *)
(***************************************************************************)
EXTENDS Integers, Sequences, FiniteSets, TLC

VARIABLES
    phase,        \* "start" | "mainloop" | "finalizing" | "exited"
    root_alive,   \* the Tk root exists (tk.Tk() done, destroy() not called)
    errorShown,   \* messagebox.showerror("Kernel Error", ...) was displayed
    fault,        \* exceptions that escaped uncaught: set of names
    engine,       \* self.engine: [exists, volume, rate, queue, loop]
    ui_built,     \* ui_init ran to its end
    text_area,    \* contents of the ScrolledText, a sequence of characters
    rate_slider,  \* value of the Scale
    run_btn,      \* state of the trigger Button
    status,       \* text of the status Label
    threads,      \* live speak_task threads: id -> [pc, raw_text, clean_text,
                  \* rate, submit_rate]; rate is what the thread passed to
                  \* setProperty, submit_rate what the Scale showed when
                  \* run_audio was called (kept for the properties only)
    afterQueue,   \* callbacks handed to root.after, in order
    stdout,       \* "Audit Exception: ..." lines printed since the trigger
                  \* was last accepted
    pending,      \* OnRunStarted observed minus OnRunFinished observed
    lastNote,     \* the latest notification the interface observed
    lastEvent     \* outcome of the last operator event on the trigger

vars == <<phase, root_alive, errorShown, fault, engine, ui_built, text_area,
          rate_slider, run_btn, status, threads, afterQueue, stdout, pending,
          lastNote, lastEvent>>

widgets == <<ui_built, text_area, rate_slider, run_btn, status>>

-----------------------------------------------------------------------------
(* Bounds of the model. *)

\* longest text pasted into the buffer in the sanitizer specification
MaxLen == 3
\* longest text typed into the buffer in the application specification
MaxBuf == 2
\* number of speak_task threads alive at once
MaxThreads == 2

-----------------------------------------------------------------------------
(* Characters.  A text is a sequence of one-character strings; "U00E9" is  *)
(* the single character LATIN SMALL LETTER E WITH ACUTE, "LF" the newline. *)

AsciiLetters == {"a", "Z"}
Digits == {"1"}
UnicodeLetters == {"U00E9"}
Whitespace == {" ", "LF"}
Punctuation == {".", ",", "!", "?", "-"}

\* characters the operator can paste (sanitizer specification)
Chars == {"a", "Z", "1", " ", ".", "-", "#", "_", "U00E9"}
\* characters the operator types (application specification)
Keys == {"a", " ", "#"}

SliderFrom == 100
SliderTo == 400
SliderDefault == 200
\* positions the operator drags the Scale to
RateValues == {SliderFrom, SliderDefault, SliderTo}
\* positions the operator tries to drag it to, past either end included
SliderInputs == RateValues \cup {SliderFrom - 50, SliderTo + 50}

TextsUpTo(S, n) == UNION {[1..k -> S] : k \in 0..n}

-----------------------------------------------------------------------------
(* Pure functions. *)

\* Python 3 re, str pattern: \w is every Unicode alphanumeric and "_"
IsWord(c) == c \in AsciiLetters \cup Digits \cup UnicodeLetters \cup {"_"}

\* \s
IsSpace(c) == c \in Whitespace

\* a character the class [^\w\s\.,!?\-] does not match
Kept(c) == IsWord(c) \/ IsSpace(c) \/ c \in Punctuation

\* a plausible slip: re.sub(..., count=1) removes the first match only
RECURSIVE sanitize_count1(_)
sanitize_count1(text) ==
    IF text = <<>> THEN <<>>
    ELSE IF Kept(Head(text)) THEN <<Head(text)>> \o sanitize_count1(Tail(text))
    ELSE Tail(text)

\* re.sub(r'[^\w\s\.,!?\-]', '', text): every match removed, the rest in order
sanitize(text) == SelectSeq(text, Kept)

RECURSIVE lstrip(_)
lstrip(text) ==
    IF text # <<>> /\ IsSpace(Head(text)) THEN lstrip(Tail(text)) ELSE text

RECURSIVE rstrip(_)
rstrip(text) ==
    IF text # <<>> /\ IsSpace(text[Len(text)])
    THEN rstrip(SubSeq(text, 1, Len(text) - 1)) ELSE text

\* str.strip()
strip(text) == rstrip(lstrip(text))

\* a plausible slip: the buffer is read without .strip()
get_raw_text_nostrip(buffer) == buffer \o <<"LF">>

\* self.text_area.get("1.0", tk.END).strip(): Text.get up to END carries the
\* widget's trailing newline
get_raw_text(buffer) == strip(buffer \o <<"LF">>)

-----------------------------------------------------------------------------
(* The engine and the interface. *)

NoEngine ==
    [exists |-> FALSE, volume |-> "unset", rate |-> <<>>, queue |-> <<>>,
     loop |-> {}]

Tids == 1..MaxThreads

\* the identity of the next Thread object
NewTid == CHOOSE t \in Tids \ DOMAIN threads :
              \A u \in Tids \ DOMAIN threads : t <= u

NoNote == [kind |-> "none", error |-> "None"]

\* a plausible slip: the value is taken as given (a plain entry, no range)
scale_set_noclamp(v) == v

\* tk.Scale keeps its value inside [from_, to]
scale_set(v) ==
    IF v < SliderFrom THEN SliderFrom ELSE IF v > SliderTo THEN SliderTo ELSE v

Init ==
    /\ phase = "start"
    /\ root_alive = TRUE
    /\ errorShown = FALSE
    /\ fault = {}
    /\ engine = NoEngine
    /\ ui_built = FALSE
    /\ text_area = <<>>
    /\ rate_slider = SliderFrom
    /\ run_btn = "absent"
    /\ status = "absent"
    /\ threads = <<>>
    /\ afterQueue = <<>>
    /\ stdout = 0
    /\ pending = 0
    /\ lastNote = NoNote
    /\ lastEvent = "none"

\* ui_init on a live root: the widgets are created in their initial state
ui_init ==
    /\ ui_built' = TRUE
    /\ text_area' = <<>>
    /\ rate_slider' = scale_set(SliderDefault)
    /\ run_btn' = "normal"
    /\ status' = "SYSTEM READY"

\* __init__ when pyttsx3.init and setProperty('volume') succeed, then
\* root.mainloop()
InitOk ==
    /\ phase = "start"
    /\ engine' = [NoEngine EXCEPT !.exists = TRUE, !.volume = "1.0"]
    /\ ui_init
    /\ phase' = "mainloop"
    /\ UNCHANGED <<root_alive, errorShown, fault, threads, afterQueue, stdout,
                   pending, lastNote, lastEvent>>

\* a plausible slip: the except branch only reports, the root is not destroyed,
\* so ui_init builds the interface and the main loop is entered
init_error_exit_nodestroy ==
    /\ root_alive' = TRUE
    /\ ui_init
    /\ phase' = "mainloop"
    /\ fault' = fault

\* the except branch after the message box: root.destroy(), then __init__ goes
\* on to self.ui_init(), whose first tk.Label on the destroyed root raises
\* TclError; nothing catches it, so it ends __main__ before root.mainloop()
init_error_exit ==
    /\ root_alive' = FALSE
    /\ UNCHANGED widgets
    /\ phase' = "exited"
    /\ fault' = fault \cup {"TclError"}

\* __init__ when the engine fails: at pyttsx3.init (self.engine never bound)
\* or at setProperty('volume') (self.engine bound, volume not set)
InitError(at) ==
    /\ phase = "start"
    /\ engine' = [NoEngine EXCEPT !.exists = (at = "volume")]
    /\ errorShown' = TRUE
    /\ init_error_exit
    /\ UNCHANGED <<threads, afterQueue, stdout, pending, lastNote, lastEvent>>

-----------------------------------------------------------------------------
(* Operator events, handled by the main loop one at a time. *)

TypeChar(c) ==
    /\ phase = "mainloop"
    /\ Len(text_area) < MaxBuf
    /\ text_area' = Append(text_area, c)
    /\ UNCHANGED <<phase, root_alive, errorShown, fault, engine, ui_built,
                   rate_slider, run_btn, status, threads, afterQueue, stdout,
                   pending, lastNote, lastEvent>>

Backspace ==
    /\ phase = "mainloop"
    /\ text_area # <<>>
    /\ text_area' = SubSeq(text_area, 1, Len(text_area) - 1)
    /\ UNCHANGED <<phase, root_alive, errorShown, fault, engine, ui_built,
                   rate_slider, run_btn, status, threads, afterQueue, stdout,
                   pending, lastNote, lastEvent>>

MoveSlider(r) ==
    /\ phase = "mainloop"
    /\ r # rate_slider
    /\ rate_slider' = scale_set(r)
    /\ UNCHANGED <<phase, root_alive, errorShown, fault, engine, ui_built,
                   text_area, run_btn, status, threads, afterQueue, stdout,
                   pending, lastNote, lastEvent>>

\* a plausible slip: the trigger is left enabled while the run is in flight
run_audio_nolock ==
    LET raw_text == get_raw_text(text_area) IN
    /\ IF raw_text = <<>>
       THEN /\ lastEvent' = "warned"
            /\ UNCHANGED <<run_btn, status, threads, pending, lastNote, stdout>>
       ELSE /\ run_btn' = run_btn
            /\ status' = "AUDIT IN PROGRESS..."
            /\ pending' = pending + 1
            /\ lastNote' = [kind |-> "OnRunStarted", error |-> "None"]
            /\ stdout' = 0
            /\ threads' = threads @@
                   (NewTid :> [pc |-> "sanitize", raw_text |-> raw_text,
                               clean_text |-> <<>>, rate |-> <<>>,
                               submit_rate |-> rate_slider])
            /\ lastEvent' = "accepted"
    /\ UNCHANGED <<phase, root_alive, errorShown, fault, engine, ui_built,
                   text_area, rate_slider, afterQueue>>

\* a plausible slip: speak_task is called in place instead of on a thread, so
\* run_audio returns only when the engine has spoken
run_audio_inline ==
    LET raw_text == get_raw_text(text_area) IN
    /\ IF raw_text = <<>>
       THEN /\ lastEvent' = "warned"
            /\ UNCHANGED <<run_btn, status, threads, pending, lastNote, stdout,
                           engine, afterQueue>>
       ELSE /\ run_btn' = "disabled"
            /\ status' = "AUDIT IN PROGRESS..."
            /\ pending' = pending + 1
            /\ lastNote' = [kind |-> "OnRunStarted", error |-> "None"]
            /\ stdout' = 0
            /\ engine' = [engine EXCEPT !.rate = <<rate_slider>>]
            /\ afterQueue' = Append(afterQueue,
                                    [func |-> "reset_ui", args |-> <<>>])
            /\ threads' = threads
            /\ lastEvent' = "accepted"
    /\ UNCHANGED <<phase, root_alive, errorShown, fault, ui_built, text_area,
                   rate_slider>>

\* a plausible slip: the emptiness test is made on the sanitized text
run_audio_cleanguard ==
    LET raw_text == get_raw_text(text_area) IN
    /\ IF sanitize(raw_text) = <<>>
       THEN /\ lastEvent' = "warned"
            /\ UNCHANGED <<run_btn, status, threads, pending, lastNote, stdout>>
       ELSE /\ run_btn' = "disabled"
            /\ status' = "AUDIT IN PROGRESS..."
            /\ pending' = pending + 1
            /\ lastNote' = [kind |-> "OnRunStarted", error |-> "None"]
            /\ stdout' = 0
            /\ threads' = threads @@
                   (NewTid :> [pc |-> "sanitize", raw_text |-> raw_text,
                               clean_text |-> <<>>, rate |-> <<>>,
                               submit_rate |-> rate_slider])
            /\ lastEvent' = "accepted"
    /\ UNCHANGED <<phase, root_alive, errorShown, fault, engine, ui_built,
                   text_area, rate_slider, afterQueue>>

\* run_audio: the buffer is read and trimmed; an empty text is answered with
\* a warning box; otherwise the trigger is disabled, the status shows the run
\* and a daemon thread is started on speak_task, which closes over raw_text
run_audio ==
    LET raw_text == get_raw_text(text_area) IN
    /\ IF raw_text = <<>>
       THEN /\ lastEvent' = "warned"
            /\ UNCHANGED <<run_btn, status, threads, pending, lastNote, stdout>>
       ELSE /\ run_btn' = "disabled"
            /\ status' = "AUDIT IN PROGRESS..."
            /\ pending' = pending + 1
            /\ lastNote' = [kind |-> "OnRunStarted", error |-> "None"]
            /\ stdout' = 0
            /\ threads' = threads @@
                   (NewTid :> [pc |-> "sanitize", raw_text |-> raw_text,
                               clean_text |-> <<>>, rate |-> <<>>,
                               submit_rate |-> rate_slider])
            /\ lastEvent' = "accepted"
    /\ UNCHANGED <<phase, root_alive, errorShown, fault, engine, ui_built,
                   text_area, rate_slider, afterQueue>>

\* the model explores at most MaxThreads runs in flight
WithinBounds ==
    /\ Cardinality(DOMAIN threads) + Len(afterQueue) < MaxThreads
    /\ Len(engine.queue) < MaxThreads

\* the operator presses the trigger while it is enabled: command=self.run_audio
ClickRun ==
    /\ phase = "mainloop"
    /\ run_btn = "normal"
    /\ WithinBounds
    /\ run_audio

\* the operator presses the trigger while it is disabled: Tk does not invoke
\* the command of a disabled Button
ClickDisabled ==
    /\ phase = "mainloop"
    /\ run_btn = "disabled"
    /\ UNCHANGED vars

\* run_audio called by code other than the trigger's command (the method is
\* public): the state of the Button does not guard it
CallRunAudio ==
    /\ phase = "mainloop"
    /\ WithinBounds
    /\ run_audio

\* a plausible slip: the status is restored but the trigger stays disabled
reset_ui_nobutton(args) ==
    /\ run_btn' = run_btn
    /\ status' = "SYSTEM READY"
    /\ pending' = pending - 1
    /\ lastNote' = [kind |-> "OnRunFinished",
                    error |-> IF args = <<>> THEN "None" ELSE args[1]]

\* reset_ui, called with the arguments root.after was given
reset_ui(args) ==
    /\ run_btn' = "normal"
    /\ status' = "SYSTEM READY"
    /\ pending' = pending - 1
    /\ lastNote' = [kind |-> "OnRunFinished",
                    error |-> IF args = <<>> THEN "None" ELSE args[1]]

\* the main loop runs the oldest callback scheduled with root.after(0, ...)
DispatchAfter ==
    /\ phase = "mainloop"
    /\ afterQueue # <<>>
    /\ reset_ui(Head(afterQueue).args)
    /\ afterQueue' = Tail(afterQueue)
    /\ UNCHANGED <<phase, root_alive, errorShown, fault, engine, ui_built,
                   text_area, rate_slider, threads, stdout, lastEvent>>

\* WM_DELETE_WINDOW: root.destroy() ends mainloop and drops pending callbacks
CloseWindow ==
    /\ phase = "mainloop"
    /\ root_alive' = FALSE
    /\ phase' = "finalizing"
    /\ afterQueue' = <<>>
    /\ UNCHANGED <<errorShown, fault, engine, ui_built, text_area, rate_slider,
                   run_btn, status, threads, stdout, pending, lastNote, lastEvent>>

\* a plausible slip: daemon=False, the interpreter waits for the threads
ProcessExit_join ==
    /\ phase = "finalizing"
    /\ DOMAIN threads = {}
    /\ phase' = "exited"
    /\ threads' = <<>>
    /\ UNCHANGED <<root_alive, errorShown, fault, engine, ui_built, text_area,
                   rate_slider, run_btn, status, afterQueue, stdout, pending,
                   lastNote, lastEvent>>

\* the interpreter exits after __main__ ends; daemon threads end with it
ProcessExit ==
    /\ phase = "finalizing"
    /\ phase' = "exited"
    /\ threads' = <<>>
    /\ UNCHANGED <<root_alive, errorShown, fault, engine, ui_built, text_area,
                   rate_slider, run_btn, status, afterQueue, stdout, pending, lastNote,
                   lastEvent>>

-----------------------------------------------------------------------------
(* speak_task, one step per statement, on the thread t. *)

Running == phase \in {"mainloop", "finalizing"}

At(t, where) == t \in DOMAIN threads /\ threads[t].pc = where

Goto(t, where) == [threads EXCEPT ![t].pc = where]

Without(t) == [u \in DOMAIN threads \ {t} |-> threads[u]]

\* a plausible slip: the setProperty('rate', ...) line is missing
speak_sanitize_noconfigure(t) ==
    /\ Running /\ At(t, "sanitize")
    /\ threads' = [threads EXCEPT ![t].pc = "say",
                                  ![t].clean_text = sanitize(threads[t].raw_text)]
    /\ UNCHANGED <<phase, root_alive, errorShown, fault, engine, ui_built,
                   text_area, rate_slider, run_btn, status, afterQueue, stdout,
                   pending, lastNote, lastEvent>>

\* clean_text = self.sanitize(raw_text)
speak_sanitize(t) ==
    /\ Running /\ At(t, "sanitize")
    /\ threads' = [threads EXCEPT ![t].pc = "setProperty",
                                  ![t].clean_text = sanitize(threads[t].raw_text)]
    /\ UNCHANGED <<phase, root_alive, errorShown, fault, engine, ui_built,
                   text_area, rate_slider, run_btn, status, afterQueue, stdout,
                   pending, lastNote, lastEvent>>

\* a plausible slip: a failure of setProperty is swallowed and the thread goes
\* on to say
speak_setProperty_continue(t, ok) ==
    /\ Running /\ At(t, "setProperty")
    /\ IF engine.exists /\ root_alive /\ ok
       THEN /\ engine' = [engine EXCEPT !.rate = <<rate_slider>>]
            /\ threads' = [threads EXCEPT ![t].pc = "say",
                                          ![t].rate = <<rate_slider>>]
       ELSE /\ engine' = engine
            /\ threads' = Goto(t, "say")
    /\ UNCHANGED <<phase, root_alive, errorShown, fault, ui_built, text_area,
                   rate_slider, run_btn, status, afterQueue, stdout, pending, lastNote,
                   lastEvent>>

\* self.engine.setProperty('rate', self.rate_slider.get()): self.engine must
\* be bound, the Scale is read now and needs the live root, and the backend
\* may raise (ok = FALSE)
speak_setProperty(t, ok) ==
    /\ Running /\ At(t, "setProperty")
    /\ IF engine.exists /\ root_alive /\ ok
       THEN /\ engine' = [engine EXCEPT !.rate = <<rate_slider>>]
            /\ threads' = [threads EXCEPT ![t].pc = "say",
                                          ![t].rate = <<rate_slider>>]
       ELSE /\ engine' = engine
            /\ threads' = Goto(t, "except")
    /\ UNCHANGED <<phase, root_alive, errorShown, fault, ui_built, text_area,
                   rate_slider, run_btn, status, afterQueue, stdout, pending, lastNote,
                   lastEvent>>

\* self.engine.say(clean_text): the utterance is queued in the engine
speak_say(t, ok) ==
    /\ Running /\ At(t, "say")
    /\ IF ok
       THEN /\ engine' = [engine EXCEPT
                             !.queue = Append(@, threads[t].clean_text)]
            /\ threads' = Goto(t, "runAndWait")
       ELSE /\ engine' = engine
            /\ threads' = Goto(t, "except")
    /\ UNCHANGED <<phase, root_alive, errorShown, fault, ui_built, text_area,
                   rate_slider, run_btn, status, afterQueue, stdout, pending, lastNote,
                   lastEvent>>

\* a plausible slip: the hand-off is made before the blocking call
speak_runAndWait_handoff(t) ==
    /\ Running /\ At(t, "runAndWait")
    /\ engine' = [engine EXCEPT !.loop = {t}]
    /\ threads' = Goto(t, "speaking")
    /\ afterQueue' = Append(afterQueue, [func |-> "reset_ui", args |-> <<>>])
    /\ UNCHANGED <<phase, root_alive, errorShown, fault, ui_built, text_area,
                   rate_slider, run_btn, status, stdout, pending, lastNote,
                   lastEvent>>

\* self.engine.runAndWait() is entered: the engine's loop starts, unless it
\* is already running (RuntimeError: run loop already started)
speak_runAndWait(t) ==
    /\ Running /\ At(t, "runAndWait")
    /\ IF engine.loop = {}
       THEN /\ engine' = [engine EXCEPT !.loop = {t}]
            /\ threads' = Goto(t, "speaking")
       ELSE /\ engine' = engine
            /\ threads' = Goto(t, "except")
    /\ UNCHANGED <<phase, root_alive, errorShown, fault, ui_built, text_area,
                   rate_slider, run_btn, status, afterQueue, stdout, pending, lastNote,
                   lastEvent>>

\* self.engine.runAndWait() returns when the queue is spoken, or raises
speak_returns(t, ok) ==
    /\ Running /\ At(t, "speaking")
    /\ engine' = [engine EXCEPT !.loop = {}, !.queue = <<>>]
    /\ threads' = Goto(t, IF ok THEN "finally" ELSE "except")
    /\ UNCHANGED <<phase, root_alive, errorShown, fault, ui_built, text_area,
                   rate_slider, run_btn, status, afterQueue, stdout, pending, lastNote,
                   lastEvent>>

\* a plausible slip: no finally clause, the hand-off is the last statement of
\* the try body, so a run that raised ends after the print
speak_except_nofinally(t) ==
    /\ Running /\ At(t, "except")
    /\ stdout' = stdout + 1
    /\ threads' = Without(t)
    /\ UNCHANGED <<phase, root_alive, errorShown, fault, engine, ui_built,
                   text_area, rate_slider, run_btn, status, afterQueue, pending, lastNote,
                   lastEvent>>

\* a plausible slip: the except branch schedules reset_ui too
speak_except_schedules(t) ==
    /\ Running /\ At(t, "except")
    /\ stdout' = stdout + 1
    /\ threads' = Goto(t, "finally")
    /\ afterQueue' = Append(afterQueue, [func |-> "reset_ui", args |-> <<>>])
    /\ UNCHANGED <<phase, root_alive, errorShown, fault, engine, ui_built,
                   text_area, rate_slider, run_btn, status, pending, lastNote,
                   lastEvent>>

\* except Exception as e: print(f"Audit Exception: {e}")
speak_except(t) ==
    /\ Running /\ At(t, "except")
    /\ stdout' = stdout + 1
    /\ threads' = Goto(t, "finally")
    /\ UNCHANGED <<phase, root_alive, errorShown, fault, engine, ui_built,
                   text_area, rate_slider, run_btn, status, afterQueue, pending, lastNote,
                   lastEvent>>

\* a plausible slip: finally calls self.reset_ui() itself, on the thread
speak_finally_direct(t) ==
    /\ Running /\ At(t, "finally")
    /\ reset_ui(<<>>)
    /\ threads' = Without(t)
    /\ UNCHANGED <<phase, root_alive, errorShown, fault, engine, ui_built,
                   text_area, rate_slider, afterQueue, stdout, lastEvent>>

\* finally: self.root.after(0, self.reset_ui), the last statement of the
\* thread; on a destroyed root the call raises and nothing is scheduled
speak_finally(t) ==
    /\ Running /\ At(t, "finally")
    /\ IF root_alive
       THEN /\ afterQueue' = Append(afterQueue,
                                    [func |-> "reset_ui", args |-> <<>>])
            /\ fault' = fault
       ELSE /\ afterQueue' = afterQueue
            /\ fault' = fault \cup {"speak_task"}
    /\ threads' = Without(t)
    /\ UNCHANGED <<phase, root_alive, errorShown, engine, ui_built, text_area,
                   rate_slider, run_btn, status, stdout, pending, lastNote, lastEvent>>

ThreadStep ==
    \E t \in Tids :
        \/ speak_sanitize(t)
        \/ \E ok \in BOOLEAN : speak_setProperty(t, ok)
        \/ \E ok \in BOOLEAN : speak_say(t, ok)
        \/ speak_runAndWait(t)
        \/ \E ok \in BOOLEAN : speak_returns(t, ok)
        \/ speak_except(t)
        \/ speak_finally(t)

-----------------------------------------------------------------------------
(* Specifications. *)

Foreground ==
    \/ \E c \in Keys : TypeChar(c)
    \/ Backspace
    \/ \E r \in SliderInputs : MoveSlider(r)
    \/ ClickRun
    \/ ClickDisabled
    \/ DispatchAfter
    \/ CloseWindow

Next ==
    \/ InitOk
    \/ \E at \in {"init", "volume"} : InitError(at)
    \/ Foreground
    \/ ThreadStep
    \/ ProcessExit

\* the application as started by __main__
Spec == Init /\ [][Next]_vars

\* the threads and the main loop are scheduled while the process lives, and
\* the backend's blocking call returns
FairSpec == Spec /\ WF_vars(ThreadStep) /\ WF_vars(DispatchAfter)

\* the application after a successful start, a text pasted into the buffer
SanInit ==
    /\ phase = "mainloop"
    /\ root_alive = TRUE
    /\ errorShown = FALSE
    /\ fault = {}
    /\ engine = [NoEngine EXCEPT !.exists = TRUE, !.volume = "1.0"]
    /\ ui_built = TRUE
    /\ text_area \in TextsUpTo(Chars, MaxLen)
    /\ rate_slider = scale_set(SliderDefault)
    /\ run_btn = "normal"
    /\ status = "SYSTEM READY"
    /\ threads = <<>>
    /\ afterQueue = <<>>
    /\ stdout = 0
    /\ pending = 0
    /\ lastNote = NoNote
    /\ lastEvent = "none"

SanNext ==
    \/ ClickRun
    \/ ClickDisabled
    \/ DispatchAfter
    \/ ThreadStep

SanSpec == SanInit /\ [][SanNext]_vars

\* the application after a successful start, a text typed into the buffer,
\* with callers of run_audio besides the trigger
DirectInit ==
    /\ phase = "mainloop"
    /\ root_alive = TRUE
    /\ errorShown = FALSE
    /\ fault = {}
    /\ engine = [NoEngine EXCEPT !.exists = TRUE, !.volume = "1.0"]
    /\ ui_built = TRUE
    /\ text_area \in TextsUpTo(Keys, MaxBuf)
    /\ rate_slider = scale_set(SliderDefault)
    /\ run_btn = "normal"
    /\ status = "SYSTEM READY"
    /\ threads = <<>>
    /\ afterQueue = <<>>
    /\ stdout = 0
    /\ pending = 0
    /\ lastNote = NoNote
    /\ lastEvent = "none"

NextDirect == SanNext \/ CallRunAudio

SpecDirect == DirectInit /\ [][NextDirect]_vars

-----------------------------------------------------------------------------
(* Properties. *)

Active == DOMAIN threads

InEngine(t) == threads[t].pc \in {"setProperty", "say", "runAndWait", "speaking"}

AllWhitespace(text) == \A i \in DOMAIN text : text[i] \in Whitespace

\* the operator's press of the enabled trigger, by what the buffer holds
BlankSubmit == ClickRun /\ AllWhitespace(text_area)
TextSubmit == ClickRun /\ ~AllWhitespace(text_area)

\* C1: single-flight.  At most one speak_task thread is alive in any state,
\* so at most one thread is inside an engine call and the engine's loop has
\* at most one owner, and the runs started exceed the runs finished by at
\* most one.
C1_SingleFlight ==
    /\ Cardinality(Active) <= 1
    /\ Cardinality({t \in Active : InEngine(t)} \cup engine.loop) <= 1
    /\ pending <= 1

\* a later run in its first step, the engine already configured by an earlier
\* one, the trigger disabled
C1_Witness ==
    /\ \E t \in Active : threads[t].pc = "sanitize"
    /\ engine.rate # <<>>
    /\ run_btn = "disabled"

\* C2: a call of run_audio while a run is in flight (the trigger disabled) is
\* rejected: no step taken while RUNNING starts a background thread or
\* produces a notification of a start.
C2_BusyRejected ==
    [][(phase = "mainloop" /\ run_btn = "disabled")
         => (DOMAIN threads' \subseteq DOMAIN threads /\ pending' <= pending)]_vars

\* C3: once the engine's initialization has failed and the error was shown,
\* the process has ended: no interface was built, no run was ever started and
\* the engine was never configured or given text.
C3_InitErrorIsFatal ==
    errorShown =>
        /\ phase = "exited"
        /\ ~root_alive
        /\ ~ui_built /\ run_btn = "absent" /\ status = "absent"
        /\ Active = {} /\ afterQueue = <<>>
        /\ engine.rate = <<>> /\ engine.queue = <<>> /\ engine.loop = {}
        /\ pending = 0 /\ lastNote = NoNote /\ lastEvent = "none"

\* the failure at setProperty('volume'): self.engine was bound, the process
\* still ended
C3_Witness == errorShown /\ engine.exists /\ phase = "exited"

\* C4: a press of the trigger with an empty or whitespace-only buffer only
\* warns: the trigger stays enabled, the status, the threads, the engine and
\* the notifications are unchanged.
C4_EmptyRejected ==
    [][BlankSubmit =>
         /\ lastEvent' = "warned"
         /\ run_btn' = "normal"
         /\ UNCHANGED <<run_btn, status, threads, engine, afterQueue, pending,
                        lastNote, text_area, rate_slider>>]_vars

\* a whitespace-only buffer was submitted and answered with the warning
C4_Witness ==
    /\ lastEvent = "warned"
    /\ text_area # <<>>
    /\ run_btn = "normal" /\ status = "SYSTEM READY"
    /\ Active = {}

\* C5: a press of the trigger with non-blank text disables the trigger, shows
\* the run in progress and starts the thread in that same step; the start is
\* observed before the finish (a finish is delivered only after a start, the
\* finishes never outnumber the starts); and, the threads and the main loop
\* being scheduled, a disabled trigger is enabled again unless the window is
\* closed.
C5_RunStartsAndCompletes ==
    /\ [][TextSubmit =>
            /\ run_btn' = "disabled"
            /\ status' = "AUDIT IN PROGRESS..."
            /\ lastNote'.kind = "OnRunStarted"
            /\ pending' = pending + 1
            /\ Cardinality(DOMAIN threads') = Cardinality(DOMAIN threads) + 1]_vars
    /\ [][DispatchAfter =>
            /\ lastNote.kind = "OnRunStarted"
            /\ lastNote'.kind = "OnRunFinished"]_vars
    /\ [](pending >= 0)
    /\ ((phase = "mainloop" /\ run_btn = "disabled")
           ~> (run_btn = "normal" \/ phase # "mainloop"))

\* a run was started and finished: the trigger is enabled again
C5_Witness ==
    /\ phase = "mainloop"
    /\ lastEvent = "accepted"
    /\ lastNote.kind = "OnRunFinished"
    /\ run_btn = "normal"
    /\ pending = 0

\* C6: while the application runs no exception escapes speak_task, a thread
\* that caught a backend exception goes on to the hand-off, and the trigger
\* is never left disabled with neither a thread alive nor reset_ui scheduled;
\* with the trigger enabled again the next press is accepted.
C6_FailureReturnsToIdle ==
    phase = "mainloop" =>
        /\ fault = {}
        /\ run_btn = "disabled" => (Active # {} \/ afterQueue # <<>>)
        /\ (stdout > 0 /\ Active = {})
              => \/ afterQueue # <<>>
                 \/ run_btn = "normal" /\ lastNote.kind = "OnRunFinished"
        /\ (run_btn = "normal" /\ ~AllWhitespace(text_area)) => ENABLED TextSubmit

\* a run whose backend raised has returned the trigger to its enabled state
C6_Witness ==
    /\ phase = "mainloop"
    /\ stdout > 0
    /\ lastNote.kind = "OnRunFinished"
    /\ run_btn = "normal"
    /\ Active = {}

\* C7: the OnRunFinished delivered for a run whose backend raised carries
\* the error.
C7_FinishedCarriesError ==
    (phase = "mainloop" /\ lastNote.kind = "OnRunFinished" /\ stdout > 0)
        => lastNote.error # "None"

\* the filter the specification states: ASCII letters, digits, whitespace and
\* . , ! ? - are kept
SpecClean(text) ==
    SelectSeq(text, LAMBDA c : c \in AsciiLetters \cup Digits \cup Whitespace
                                      \cup Punctuation)

\* C8: the text a run has sanitized is its raw text without every character
\* that is not an ASCII letter, a digit, whitespace or one of . , ! ? -
C8_CleanIsAsciiFilter ==
    \A t \in Active :
        threads[t].pc # "sanitize"
            => threads[t].clean_text = SpecClean(threads[t].raw_text)

\* C9: sanitizing the sanitized text of a run changes nothing.
C9_Idempotent ==
    \A t \in Active :
        threads[t].pc # "sanitize"
            => sanitize(threads[t].clean_text) = threads[t].clean_text

\* a run whose sanitized text lost characters and is not empty
C9_Witness ==
    \E t \in Active :
        /\ threads[t].pc # "sanitize"
        /\ threads[t].clean_text # threads[t].raw_text
        /\ threads[t].clean_text # <<>>

\* C10: every text handed to engine.say holds only letters, digits,
\* whitespace and . , ! ? -
C10_EngineGetsOnlyAllowed ==
    \A i \in DOMAIN engine.queue :
        \A j \in DOMAIN engine.queue[i] :
            engine.queue[i][j] \in AsciiLetters \cup UnicodeLetters \cup Digits
                                     \cup Whitespace \cup Punctuation

\* C11: the interface is changed on the foreground only.  No step of a
\* speak_task thread changes a widget or produces a notification; the
\* trigger, the status and the notifications change only in __init__, in
\* run_audio and in a callback the main loop dispatches; the trigger is
\* enabled again only by the dispatched reset_ui; and a finish is delivered
\* only after the start it belongs to.
C11_InterfaceOnForeground ==
    /\ [][ThreadStep => UNCHANGED <<ui_built, text_area, rate_slider, run_btn,
                                    status, pending, lastNote>>]_vars
    /\ [][(run_btn' # run_btn \/ status' # status \/ lastNote' # lastNote)
            => (InitOk \/ ClickRun \/ DispatchAfter)]_vars
    /\ [][(run_btn = "disabled" /\ run_btn' = "normal")
            => (DispatchAfter /\ Head(afterQueue).func = "reset_ui")]_vars
    /\ [][(lastNote' # lastNote /\ lastNote'.kind = "OnRunFinished")
            => lastNote.kind = "OnRunStarted"]_vars

\* a successful run has handed reset_ui to the main loop and ended; the
\* widgets still show the run
C11_Witness ==
    /\ phase = "mainloop"
    /\ Active = {}
    /\ afterQueue = <<[func |-> "reset_ui", args |-> <<>>]>>
    /\ stdout = 0
    /\ run_btn = "disabled" /\ status = "AUDIT IN PROGRESS..."

ForegroundCanStep ==
    /\ ENABLED (\E r \in RateValues : MoveSlider(r))
    /\ ENABLED ((\E c \in Keys : TypeChar(c)) \/ Backspace)
    /\ ENABLED CloseWindow

\* C12: run_audio returns once the thread is started: the accepting step
\* makes no engine call and schedules nothing, the new thread has not run a
\* statement; and in every state in which a thread is inside runAndWait the
\* main loop can handle an operator event.
C12_ForegroundNeverBlocks ==
    /\ [][TextSubmit =>
            /\ engine' = engine
            /\ afterQueue' = afterQueue
            /\ \E t \in DOMAIN threads' \ DOMAIN threads :
                   threads'[t].pc = "sanitize"]_vars
    /\ []((phase = "mainloop" /\ \E t \in Active : threads[t].pc = "speaking")
            => ForegroundCanStep)

\* the operator moved the Scale and edited the buffer while the engine speaks
C12_Witness ==
    \E t \in Active :
        /\ threads[t].pc = "speaking"
        /\ threads[t].rate # <<rate_slider>>
        /\ get_raw_text(text_area) # threads[t].raw_text

Speaking(t) == threads[t].pc \in {"say", "runAndWait", "speaking"}

\* C13: a thread that is at say or inside runAndWait has set the rate
\* before, and the engine still holds the rate that thread set; no text is
\* queued in an engine whose rate was never set.
C13_ConfigureBeforeSpeak ==
    /\ \A t \in Active :
           Speaking(t) => (threads[t].rate # <<>> /\ engine.rate = threads[t].rate)
    /\ engine.queue # <<>> => engine.rate # <<>>

\* the engine speaks the text of a run that set the rate to the Scale's top
C13_Witness ==
    \E t \in Active :
        /\ threads[t].pc = "speaking"
        /\ threads[t].rate = <<SliderTo>>
        /\ engine.queue = <<threads[t].clean_text>>

\* C14: the rate a run passes to setProperty is the value the Scale showed
\* when run_audio was called.
C14_RequestImmutable ==
    \A t \in Active :
        threads[t].rate # <<>> => threads[t].rate = <<threads[t].submit_rate>>

InRange(r) == SliderFrom <= r /\ r <= SliderTo

\* C15: the Scale's value, and with it every rate passed to setProperty,
\* lies in [100, 400]; the Scale is created at 200 and changes only when the
\* operator moves it, and the engine's rate changes only to the Scale's value.
C15_RateInRange ==
    /\ [](/\ ui_built => InRange(rate_slider)
          /\ engine.rate # <<>> => InRange(engine.rate[1])
          /\ \A t \in Active : threads[t].rate # <<>> => InRange(threads[t].rate[1]))
    /\ [][InitOk => rate_slider' = SliderDefault]_vars
    /\ [][rate_slider' # rate_slider
            => (InitOk \/ \E r \in SliderInputs : MoveSlider(r))]_vars
    /\ [][engine'.rate # engine.rate => engine'.rate = <<rate_slider>>]_vars

\* a run passed the Scale's lowest value to the engine
C15_Witness ==
    /\ engine.rate = <<SliderFrom>>
    /\ \E t \in Active : threads[t].pc = "speaking" /\ threads[t].rate = <<SliderFrom>>

\* C16: the thread is a daemon.  After the window was closed the process
\* can end at once, whatever the threads are doing; closing the window leaves
\* the threads and the engine as they are and a thread can go on until the
\* process ends; and a started thread is changed or removed only by its own
\* steps or by the end of the process, never by run_audio, reset_ui or any
\* other step of the main loop.
C16_Detached ==
    /\ [](phase = "finalizing" => ENABLED ProcessExit)
    /\ []((phase = "finalizing" /\ Active # {}) => ENABLED ThreadStep)
    /\ [][CloseWindow => UNCHANGED <<threads, engine>>]_vars
    /\ [][(\E t \in Active : t \notin DOMAIN threads' \/ threads'[t] # threads[t])
            => (ThreadStep \/ ProcessExit)]_vars

\* the process ended while the engine's loop was still speaking
C16_Witness ==
    /\ phase = "exited"
    /\ engine.loop # {}
    /\ engine.queue # <<>>
    /\ run_btn = "disabled"

\* C17: the notifications alternate, the first being a start.  An accepted
\* press comes after no start that is still unanswered, reports one start,
\* starts one thread and schedules nothing itself; each reset_ui that runs
\* answers a start; while the window is open every started run that was not
\* yet answered is either one live thread or one scheduled reset_ui, never
\* both and never two; so the starts exceed the finishes by 0 or 1.
C17_StrictAlternation ==
    /\ [][TextSubmit =>
            /\ lastNote.kind # "OnRunStarted"
            /\ lastNote'.kind = "OnRunStarted"
            /\ pending = 0 /\ pending' = 1
            /\ \E t \in DOMAIN threads' : DOMAIN threads' = DOMAIN threads \cup {t}
                                          /\ t \notin DOMAIN threads
            /\ afterQueue' = afterQueue]_vars
    /\ [][DispatchAfter =>
            /\ lastNote.kind = "OnRunStarted" /\ lastNote'.kind = "OnRunFinished"
            /\ pending = 1 /\ pending' = 0]_vars
    /\ [][lastNote' # lastNote => lastNote'.kind # lastNote.kind]_vars
    /\ [][(lastNote = NoNote /\ lastNote' # lastNote)
            => lastNote'.kind = "OnRunStarted"]_vars
    /\ [](pending \in {0, 1} /\ Len(afterQueue) <= 1)
    /\ [](phase = "mainloop" => pending = Cardinality(Active) + Len(afterQueue))

\* a second run was accepted after the first one was answered, and has itself
\* ended with its reset_ui scheduled
C17_Witness ==
    /\ phase = "mainloop"
    /\ engine.rate # <<>>
    /\ engine.queue = <<>> /\ engine.loop = {}
    /\ stdout = 0
    /\ Active = {} /\ Len(afterQueue) = 1
    /\ lastNote.kind = "OnRunStarted"
    /\ pending = 1
    /\ threads = <<>>
    /\ text_area = <<>>

EngineIdle == engine.loop = {} /\ engine.queue = <<>>

\* C18: with the trigger enabled no thread is alive, no reset_ui is scheduled,
\* the engine is idle and the status shows ready; with the trigger disabled
\* the status shows the run in progress and one start is unanswered.  The
\* trigger is disabled by the accepted press and stays disabled through the
\* thread's steps, its end included, until reset_ui runs on the main loop.
C18_TriggerTracksRun ==
    /\ [](run_btn = "normal" =>
            /\ Active = {} /\ afterQueue = <<>>
            /\ EngineIdle
            /\ pending = 0
            /\ status = "SYSTEM READY")
    /\ [](run_btn = "disabled" =>
            /\ status = "AUDIT IN PROGRESS..."
            /\ pending = 1)
    /\ []((phase = "mainloop" /\ (Active # {} \/ afterQueue # <<>>))
            => run_btn = "disabled")
    /\ [][ThreadStep => (run_btn = "disabled" /\ run_btn' = "disabled")]_vars

\* the thread of a run whose backend raised has ended, reset_ui is scheduled
\* and has not run: the trigger is still disabled
C18_Witness ==
    /\ phase = "mainloop"
    /\ stdout > 0
    /\ Active = {}
    /\ Len(afterQueue) = 1
    /\ run_btn = "disabled" /\ status = "AUDIT IN PROGRESS..."

\* a buffer that is not blank and of which the filter keeps nothing
DisallowedOnly(text) == ~AllWhitespace(text) /\ sanitize(get_raw_text(text)) = <<>>

\* C19: the test for empty text is made on the stripped buffer, before the
\* filter.  A press with a buffer that is not blank but of which the filter
\* keeps nothing is accepted like any other: the trigger is disabled and a
\* thread starts with the stripped text; that thread hands the empty string
\* to say and runAndWait; and the run ends with the trigger enabled again
\* unless the window is closed.
C19_GuardBeforeSanitize ==
    /\ [][(ClickRun /\ DisallowedOnly(text_area)) =>
            /\ lastEvent' = "accepted"
            /\ run_btn' = "disabled"
            /\ \E t \in DOMAIN threads' \ DOMAIN threads :
                   /\ threads'[t].pc = "sanitize"
                   /\ threads'[t].raw_text = get_raw_text(text_area)
                   /\ threads'[t].raw_text # <<>>]_vars
    /\ [](\A t \in Active :
            threads[t].pc # "sanitize" => threads[t].clean_text = sanitize(threads[t].raw_text))
    /\ [](\A t \in Active :
            (threads[t].pc \in {"runAndWait", "speaking"} /\ sanitize(threads[t].raw_text) = <<>>)
                => engine.queue = << <<>> >>)
    /\ ((phase = "mainloop" /\ \E t \in Active : sanitize(threads[t].raw_text) = <<>>)
           ~> ((run_btn = "normal" /\ Active = {}) \/ phase # "mainloop"))

\* the engine's loop runs on the empty string of a run submitted with "#"
C19_Witness ==
    \E t \in Active :
        /\ threads[t].pc = "speaking"
        /\ threads[t].raw_text = <<"#">>
        /\ threads[t].clean_text = <<>>
        /\ engine.queue = << <<>> >>
        /\ engine.loop # {}

\* a thread in which line 127 raised: it is past the try block without having
\* set the rate
FailedBeforeSay(t) == threads[t].rate = <<>> /\ threads[t].pc \in {"except", "finally"}

\* C20: a thread that has not set the rate is never at say or in runAndWait,
\* and while it lives nothing is queued in the engine and the engine's loop
\* does not run; after the failure its steps leave the engine alone, the
\* exception is printed before the hand-off and with the window open the
\* hand-off schedules reset_ui, once; the trigger is then enabled again unless
\* the window is closed.
C20_FailureSkipsSpeak ==
    /\ [](\A t \in Active :
            threads[t].rate = <<>> =>
                /\ threads[t].pc \in {"sanitize", "setProperty", "except", "finally"}
                /\ EngineIdle)
    /\ [](\A t \in Active :
            (FailedBeforeSay(t) /\ threads[t].pc = "finally") => stdout = 1)
    /\ [](phase = "mainloop" => fault = {})
    /\ [][\A t \in Active :
            (FailedBeforeSay(t) /\ (speak_except(t) \/ speak_finally(t)))
                => engine' = engine]_vars
    /\ [][\A t \in Active :
            (FailedBeforeSay(t) /\ root_alive /\ speak_finally(t))
                => /\ afterQueue = <<>>
                   /\ afterQueue' = <<[func |-> "reset_ui", args |-> <<>>]>>
                   /\ threads' = <<>>]_vars
    /\ ((phase = "mainloop" /\ \E t \in Active : FailedBeforeSay(t))
           ~> ((run_btn = "normal" /\ Active = {}) \/ phase # "mainloop"))

\* setProperty raised in a run: the exception was printed, the engine was
\* given nothing and the thread is about to schedule reset_ui
C20_Witness ==
    /\ phase = "mainloop"
    /\ \E t \in Active : threads[t].pc = "finally" /\ threads[t].rate = <<>>
    /\ stdout = 1
    /\ EngineIdle
    /\ afterQueue = <<>>
    /\ run_btn = "disabled"

====
